---------------------------- MODULE Spec2Model ----------------------------
(***************************************************************************)
(* Dual-stream layout/OCR fusion: a model of the two realizations of the   *)
(* fusion algorithm in this repository,                                    *)
(*   build_hybrid_entry            (src/dual_stream_fusion.py)             *)
(*   deterministic_hybrid_fusion   (src/fusion_alg.py)                     *)
(*                                                                         *)
(* Units.  Normalized page coordinates are floats in [0,1] in the code;    *)
(* here they are integers counting hundredths of the page, so 0.02 is 2    *)
(* and an area is counted in 1/10000 of the page.  Inputs are chosen so    *)
(* that every division the code performs is exact in these units.          *)
(*                                                                         *)
(* Text is a sequence of one-character strings.                            *)
(*                                                                         *)
(* Run-length encoding.  A word record carries a count n >= 1: it stands   *)
(* for n consecutive input words with the same text, break and geometry.   *)
(* Every per-word loop of the code treats such words alike except for the  *)
(* index, so a loop iteration of the model handles the n words at once     *)
(* and index lists are kept as sequences of spans <<lo, hi>> (the indices  *)
(* lo..hi).  With n = 1 a span is a single index <<i, i>>.                 *)
(***************************************************************************)
EXTENDS Integers, Sequences, FiniteSets, TLC

VARIABLES
  impl,               \* which realization runs: "dual_stream_fusion" or "fusion_alg"
  pc,                 \* position in the function
  aws_data,           \* layout input: [loaded, Blocks]
  google_data,        \* OCR input of build_hybrid_entry: [loaded, pages]
  google_ocr_tokens,  \* OCR input of deterministic_hybrid_fusion
  page_size,          \* <<page_width, page_height>> of deterministic_hybrid_fusion
  google_words,       \* normalized words of build_hybrid_entry
  block_info,         \* prepared blocks (block_info / blocks), area-sorted
  used_word_indices,  \* set of spans matched to some block
  final_regions,      \* final_regions / reconstructed_regions; sorted at the end
  emitted,            \* history: the region list as it was before the final sort
  output              \* what the function returned

vars == <<impl, pc, aws_data, google_data, google_ocr_tokens, page_size,
          google_words, block_info, used_word_indices, final_regions, emitted, output>>

DSF == "dual_stream_fusion"
ALG == "fusion_alg"

-----------------------------------------------------------------------------
(* Bounds of the explored inputs *)

MaxWords == 2
MaxBlocks == 2
BigCount == 1000000

-----------------------------------------------------------------------------
(* Program constants *)

TOLERANCE == 2
EMPTY_SORT_KEY == 999999

-----------------------------------------------------------------------------
(* Generic helpers *)

Min(S) == CHOOSE x \in S : \A y \in S : x <= y

RECURSIVE SumSeq(_)
SumSeq(s) == IF s = <<>> THEN 0 ELSE Head(s) + SumSeq(Tail(s))

RECURSIVE Concat(_)
Concat(ss) == IF ss = <<>> THEN <<>> ELSE Head(ss) \o Concat(Tail(ss))

\* s repeated n times; the empty sequence repeated is empty whatever n is
RECURSIVE Repeat(_, _)
Repeat(s, n) == IF s = <<>> \/ n <= 0 THEN <<>> ELSE s \o Repeat(s, n - 1)

\* number of words a run-length encoded word list stands for
Count(ws) == SumSeq([k \in 1..Len(ws) |-> ws[k].n])

\* index of the first word of entry k
StartIndex(ws, k) == Count(SubSeq(ws, 1, k - 1))

SpanOf(ws, k) == <<StartIndex(ws, k), StartIndex(ws, k) + ws[k].n - 1>>

\* the entry that holds word index i
EntryOf(ws, i) == CHOOSE k \in 1..Len(ws) : SpanOf(ws, k)[1] <= i /\ i <= SpanOf(ws, k)[2]

Indices(spans) == UNION {s[1]..s[2] : s \in {spans[k] : k \in 1..Len(spans)}}

-----------------------------------------------------------------------------
(* Sort keys: an index, or float('inf') *)

Fin(i) == [inf |-> FALSE, val |-> i]
Inf == [inf |-> TRUE, val |-> 0]
KeyLT(a, b) == ~a.inf /\ (b.inf \/ a.val < b.val)

-----------------------------------------------------------------------------
(* Text *)

NoBreak == "NONE"

IsSpace(c) == c \in {" ", "\n", "\t"}

\* str.strip()
RECURSIVE LStrip(_)
LStrip(s) == IF s # <<>> /\ IsSpace(Head(s)) THEN LStrip(Tail(s)) ELSE s

RECURSIVE RStrip(_)
RStrip(s) == IF s # <<>> /\ IsSpace(s[Len(s)]) THEN RStrip(SubSeq(s, 1, Len(s) - 1)) ELSE s

Strip(s) == RStrip(LStrip(s))

-----------------------------------------------------------------------------
(* src/dual_stream_fusion.py: get_google_words_robust                       *)
(*                                                                         *)
(* google_data.pages is a sequence of pages; a page is a record with a     *)
(* field words and, when declared, width and height.  The block and        *)
(* paragraph levels of a page are flattened: the three nested loops visit  *)
(* the words in this order.  A raw word is                                 *)
(*   [text, break_type, vertices, n]                                       *)
(* text: the join of its symbols' texts; break_type: the detectedBreak     *)
(* type of its last symbol (NoBreak when absent); vertices: the vertices   *)
(* of its boundingBox (<<>> when there are none).                          *)

PageGet(page, key, default) == IF key \in DOMAIN page THEN page[key] ELSE default

\* PASS 1: the global maximum of the declared dimensions, starting at 1.0
RECURSIVE MaxDim(_, _, _)
MaxDim(pages, key, acc) ==
  IF pages = <<>> THEN acc
  ELSE LET p == PageGet(Head(pages), key, 0)
       IN  MaxDim(Tail(pages), key, IF p > acc THEN p ELSE acc)

\* sum(xs) / len(xs) of one coordinate (c = 1 for x, 2 for y)
Mean(vertices, c) == SumSeq([k \in 1..Len(vertices) |-> vertices[k][c]]) \div Len(vertices)

\* PASS 2, one page: words without vertices are skipped, the others get
\* their centre divided by the page's own dimensions (1.0 when <= 0)
WordsOfPage(page, max_x, max_y) ==
  LET w0 == PageGet(page, "width", max_x)
      h0 == PageGet(page, "height", max_y)
      current_w == IF w0 <= 0 THEN 1 ELSE w0
      current_h == IF h0 <= 0 THEN 1 ELSE h0
      kept == SelectSeq(page.words, LAMBDA w : w.vertices # <<>>)
  IN  [k \in 1..Len(kept) |->
         [text       |-> kept[k].text,
          break_type |-> kept[k].break_type,
          center_x   |-> (Mean(kept[k].vertices, 1) * 100) \div current_w,
          center_y   |-> (Mean(kept[k].vertices, 2) * 100) \div current_h,
          n          |-> kept[k].n]]

get_google_words_robust(gd) ==
  LET pages == gd.pages
      max_x == MaxDim(pages, "width", 1)
      max_y == MaxDim(pages, "height", 1)
  IN  IF pages = <<>>
      THEN [words |-> <<>>, width |-> 1, height |-> 1]
      ELSE [words  |-> Concat([k \in 1..Len(pages) |-> WordsOfPage(pages[k], max_x, max_y)]),
            width  |-> max_x,
            height |-> max_y]

-----------------------------------------------------------------------------
(* src/dual_stream_fusion.py: join_words_smart *)

\* the separator appended after a word that is not the last of its chunk
Separator(bt) ==
  IF bt \in {"EOL_SURE_SPACE", "LINE_BREAK"} THEN <<"\n">>
  ELSE IF bt \in {"SPACE", "SURE_SPACE"} THEN <<" ">>
  ELSE IF bt = "HYPHEN" THEN <<" ", "-">>
  ELSE <<>>

\* word_list is run-length encoded: entry k stands for n equal words, each
\* but the very last word of the list followed by its separator
RECURSIVE join_words_smart(_)
join_words_smart(word_list) ==
  IF word_list = <<>> THEN <<>>
  ELSE LET w == Head(word_list)
           piece == w.text \o Separator(w.break_type)
       IN  Repeat(piece, w.n - 1)
             \o w.text
             \o (IF Len(word_list) > 1 THEN Separator(w.break_type) ELSE <<>>)
             \o join_words_smart(Tail(word_list))

-----------------------------------------------------------------------------
(* Blocks, matching and run splitting, shared by the two realizations      *)
(*                                                                         *)
(* A raw layout block is [BlockType, Left, Top, Width, Height]; BlockType  *)
(* is the pair <<prefix, name>>, e.g. <<"LAYOUT_", "TABLE">> for           *)
(* 'LAYOUT_TABLE' and <<"", "LINE">> for 'LINE'.  A prepared block is      *)
(*   [label, coords, area, matched_indices, pos]                           *)
(* coords = <<left, top, right, bottom>>; pos is not in the code: it       *)
(* records the block's position in the input list.                         *)

\* the blocks handed on in input order, never sorted
SortByAreaSkipped(blocks) == blocks

\* block_info.sort(key=lambda x: x['area']) / blocks.sort(...): ascending
\* area, stable
SortByArea(blocks) ==
  LET rank(i) == Cardinality({j \in 1..Len(blocks) :
                     \/ blocks[j].area < blocks[i].area
                     \/ (blocks[j].area = blocks[i].area /\ j < i)}) + 1
  IN  [p \in 1..Len(blocks) |-> blocks[CHOOSE i \in 1..Len(blocks) : rank(i) = p]]

\* the tolerance-expanded inclusion test
Inside(c, x, y) ==
  /\ c[1] - TOLERANCE <= x /\ x <= c[3] + TOLERANCE
  /\ c[2] - TOLERANCE <= y /\ y <= c[4] + TOLERANCE

Hits(blocks, x, y) == {j \in 1..Len(blocks) : Inside(blocks[j].coords, x, y)}

\* the scan without its break: every block that passes the test gets the word
MatchTargetsNoBreak(blocks, x, y) == Hits(blocks, x, y)

\* the inner loop: the positions of the blocks the word is appended to,
\* the first block that passes the test or none
MatchTargets(blocks, x, y) ==
  IF Hits(blocks, x, y) = {} THEN {} ELSE {Min(Hits(blocks, x, y))}

\* one iteration of the assignment loop for entry k with centroid <<x, y>>
AssignOne(blocks, span, x, y) ==
  [j \in 1..Len(blocks) |->
     IF j \in MatchTargets(blocks, x, y)
     THEN [blocks[j] EXCEPT !.matched_indices = Append(@, span)]
     ELSE blocks[j]]

\* sorted(indices): spans in ascending order (they never overlap)
SortSpans(spans) ==
  LET rank(i) == Cardinality({j \in 1..Len(spans) :
                     \/ spans[j][1] < spans[i][1]
                     \/ (spans[j][1] = spans[i][1] /\ j < i)}) + 1
  IN  [p \in 1..Len(spans) |-> spans[CHOOSE i \in 1..Len(spans) : rank(i) = p]]

\* the chunking loop: x starts a new chunk when x > current_chunk[-1] + 1.
\* A chunk is a sequence of spans.
RECURSIVE ChunkLoop(_, _, _)
ChunkLoop(rest, chunks, current_chunk) ==
  IF rest = <<>> THEN Append(chunks, current_chunk)
  ELSE LET x == Head(rest)
       IN  IF x[1] > current_chunk[Len(current_chunk)][2] + 1
           THEN ChunkLoop(Tail(rest), Append(chunks, current_chunk), <<x>>)
           ELSE ChunkLoop(Tail(rest), chunks, Append(current_chunk, x))

SplitChunks(indices) ==
  IF indices = <<>> THEN <<>> ELSE ChunkLoop(Tail(indices), <<>>, <<Head(indices)>>)

\* [google_words[idx] for idx in chunk]
ChunkWords(ws, chunk) == [k \in 1..Len(chunk) |-> ws[EntryOf(ws, chunk[k][1])]]

-----------------------------------------------------------------------------
(* src/dual_stream_fusion.py: build_hybrid_entry                            *)
(*                                                                         *)
(* A region is [label, box, text, sort_key, run, block].  The last two     *)
(* are not in the code: run records the spans of the word indices the text *)
(* was built from, block the input position (pos) of the block the region  *)
(* was built for, 0 for an orphan region.                                  *)

IsLayout(b) == b.BlockType[1] = "LAYOUT_"

DSF_block_info(blocks) ==
  LET layout == SelectSeq([k \in 1..Len(blocks) |->
                             [b |-> blocks[k], pos |-> k]], LAMBDA e : IsLayout(e.b))
  IN  SortByArea([k \in 1..Len(layout) |->
        LET box == layout[k].b
        IN  [label           |-> box.BlockType[2],
             coords          |-> <<box.Left, box.Top, box.Left + box.Width, box.Top + box.Height>>,
             area            |-> box.Width * box.Height,
             matched_indices |-> <<>>,
             pos             |-> layout[k].pos]])

\* the "Assign Words" loop from entry k on
RECURSIVE DSF_assign(_, _, _)
DSF_assign(blocks, ws, k) ==
  IF k > Len(ws) THEN blocks
  ELSE DSF_assign(AssignOne(blocks, SpanOf(ws, k), ws[k].center_x, ws[k].center_y), ws, k + 1)

DSF_used(blocks) == UNION {{b.matched_indices[k] : k \in 1..Len(b.matched_indices)} :
                             b \in {blocks[j] : j \in 1..Len(blocks)}}

\* the regions the "Reconstruct" loop appends for one block
DSF_block_regions(block, ws) ==
  LET indices == SortSpans(block.matched_indices)
      chunks  == SplitChunks(indices)
  IN  IF indices = <<>>
      THEN << [label |-> block.label, box |-> block.coords, text |-> <<>>,
               sort_key |-> Fin(EMPTY_SORT_KEY), run |-> <<>>, block |-> block.pos] >>
      ELSE [c \in 1..Len(chunks) |->
              [label    |-> block.label,
               box      |-> block.coords,
               text     |-> join_words_smart(ChunkWords(ws, chunks[c])),
               sort_key |-> Fin(chunks[c][1][1]),
               run      |-> chunks[c],
               block    |-> block.pos]]

DSF_reconstruct(blocks, ws) ==
  Concat([j \in 1..Len(blocks) |-> DSF_block_regions(blocks[j], ws)])

\* sum(w[f] for w in chunk_words) / len(chunk_words), rounded down
AvgCenter(chunk_words, f) ==
  SumSeq([k \in 1..Len(chunk_words) |-> chunk_words[k][f] * chunk_words[k].n]) \div Count(chunk_words)

\* the regions of the "Orphans" part
DSF_orphans(ws, used) ==
  LET orphaned_indices == SelectSeq([k \in 1..Len(ws) |-> SpanOf(ws, k)], LAMBDA sp : sp \notin used)
      orphan_chunks == SplitChunks(orphaned_indices)
  IN  [c \in 1..Len(orphan_chunks) |->
         LET chunk_words == ChunkWords(ws, orphan_chunks[c])
             avg_x == AvgCenter(chunk_words, "center_x")
             avg_y == AvgCenter(chunk_words, "center_y")
         IN  [label    |-> "Paragraph",
              box      |-> <<avg_x, avg_y, avg_x, avg_y>>,
              text     |-> join_words_smart(chunk_words),
              sort_key |-> Fin(orphan_chunks[c][1][1]),
              run      |-> orphan_chunks[c],
              block    |-> 0]]

\* a sort that reverses the input order among equal keys
SortBySortKeyUnstable(regions) ==
  LET rank(i) == Cardinality({j \in 1..Len(regions) :
                     \/ KeyLT(regions[j].sort_key, regions[i].sort_key)
                     \/ (~KeyLT(regions[i].sort_key, regions[j].sort_key) /\ j > i)}) + 1
  IN  [p \in 1..Len(regions) |-> regions[CHOOSE i \in 1..Len(regions) : rank(i) = p]]

\* final_regions.sort(key=lambda x: x['sort_key']) / sorted(...): stable
SortBySortKey(regions) ==
  LET rank(i) == Cardinality({j \in 1..Len(regions) :
                     \/ KeyLT(regions[j].sort_key, regions[i].sort_key)
                     \/ (~KeyLT(regions[i].sort_key, regions[j].sort_key) /\ j < i)}) + 1
  IN  [p \in 1..Len(regions) |-> regions[CHOOSE i \in 1..Len(regions) : rank(i) = p]]

\* {k: v for k, v in r.items() if k != 'sort_key'}
StripSortKey(r) == [label |-> r.label, box_2d |-> r.box, text |-> r.text]

-----------------------------------------------------------------------------
(* src/fusion_alg.py: deterministic_hybrid_fusion                           *)
(*                                                                         *)
(* A token is [text, break_type, vertices, n]: text is its 'description',  *)
(* break_type its property.detectedBreak.type (NoBreak when absent, which  *)
(* the code reads as 'UNKNOWN'), vertices its boundingPoly.vertices.       *)

\* get_centroid divides by len(vertices) and by the page dimensions
CentroidRaises(token, w, h) == Len(token.vertices) = 0 \/ w = 0 \/ h = 0

get_centroid(token, w, h) ==
  <<(Mean(token.vertices, 1) * 100) \div w, (Mean(token.vertices, 2) * 100) \div h>>

ALG_blocks(aws_layout_blocks) ==
  SortByArea([k \in 1..Len(aws_layout_blocks) |->
    LET box == aws_layout_blocks[k]
    IN  [label           |-> box.BlockType,
         coords          |-> <<box.Left, box.Top, box.Left + box.Width, box.Top + box.Height>>,
         area            |-> box.Width * box.Height,
         matched_indices |-> <<>>,
         pos             |-> k]])

\* Step 2 from entry k on (no token raises)
RECURSIVE ALG_assign(_, _, _, _)
ALG_assign(blocks, tokens, size, k) ==
  IF k > Len(tokens) THEN blocks
  ELSE LET c == get_centroid(tokens[k], size[1], size[2])
       IN  ALG_assign(AssignOne(blocks, SpanOf(tokens, k), c[1], c[2]), tokens, size, k + 1)

\* what follows a token's text: the HYPHEN break and unknown breaks add nothing
ALG_Separator(bt) ==
  IF bt \in {"SPACE", "SURE_SPACE"} THEN <<" ">>
  ELSE IF bt \in {"EOL_SURE_SPACE", "LINE_BREAK"} THEN <<"\n">>
  ELSE <<>>

\* full_text of the loop over idx: every token, the last one too, is
\* followed by its separator
RECURSIVE ALG_full_text(_)
ALG_full_text(token_list) ==
  IF token_list = <<>> THEN <<>>
  ELSE LET t == Head(token_list)
       IN  Repeat(t.text \o ALG_Separator(t.break_type), t.n) \o ALG_full_text(Tail(token_list))

\* Step 3 for one block: an empty placeholder, or one region for all of
\* the block's tokens
ALG_block_regions(b, tokens) ==
  LET matched == SortSpans(b.matched_indices)
  IN  IF matched = <<>>
      THEN << [label |-> b.label, box |-> b.coords, text |-> <<>>,
               sort_key |-> Inf, run |-> <<>>, block |-> b.pos] >>
      ELSE << [label    |-> b.label,
               box      |-> b.coords,
               text     |-> Strip(ALG_full_text(ChunkWords(tokens, matched))),
               sort_key |-> Fin(matched[1][1]),
               run      |-> matched,
               block    |-> b.pos] >>

ALG_reconstruct(blocks, tokens) ==
  Concat([j \in 1..Len(blocks) |-> ALG_block_regions(blocks[j], tokens)])

\* Step 4: all orphan tokens in one Paragraph region
ALG_orphans(tokens, used) ==
  LET orphan_indices == SortSpans(SelectSeq([k \in 1..Len(tokens) |-> SpanOf(tokens, k)],
                                            LAMBDA sp : sp \notin used))
  IN  IF orphan_indices = <<>> THEN <<>>
      ELSE << [label    |-> "Paragraph",
               box      |-> <<0, 0, 0, 0>>,
               text     |-> Strip(ALG_full_text(ChunkWords(tokens, orphan_indices))),
               sort_key |-> Fin(orphan_indices[1][1]),
               run      |-> orphan_indices,
               block    |-> 0] >>

-----------------------------------------------------------------------------
(* Inputs *)

SeqsUpTo(S, n) == UNION {[1..k -> S] : k \in 0..n}

\* the four corners of a word box centred at <<x, y>>, in pixels
Box4(x, y) == << <<x - 2, y - 1>>, <<x + 2, y - 1>>, <<x + 2, y + 1>>, <<x - 2, y + 1>> >>

Word(text, bt, vertices) == [text |-> text, break_type |-> bt, vertices |-> vertices, n |-> 1]

Block(prefix, name, l, t, w, h) ==
  [BlockType |-> <<prefix, name>>, Left |-> l, Top |-> t, Width |-> w, Height |-> h]

\* pages of 100 x 100 pixels: a pixel is a hundredth of the page
Page(words) == [width |-> 100, height |-> 100, words |-> words]

Doc(blocks, pages) == [aws_loaded |-> TRUE, google_loaded |-> TRUE, blocks |-> blocks, pages |-> pages]

\* a small block nested in a big one, and a line-level (non-layout) block
\* nested in the small one
Small == Block("LAYOUT_", "TEXT", 10, 10, 20, 20)
Big   == Block("LAYOUT_", "TABLE", 0, 0, 60, 60)
Line  == Block("", "LINE", 15, 18, 10, 4)
BlockKinds == {Small, Big, Line}

\* word centres: in Line, Small and Big; in Big only; in no block; and no
\* geometry at all
Geometries == {Box4(20, 20), Box4(50, 50), Box4(70, 70), <<>>}

Lexemes == { <<<<"a">>, "SPACE">>, <<<<"b">>, "HYPHEN">>, <<<<>>, "LINE_BREAK">> }

WordKinds == {Word(lx[1], lx[2], g) : lx \in Lexemes, g \in Geometries}

BoundedDocs ==
  {Doc(bs, <<Page(ws)>>) : bs \in SeqsUpTo(BlockKinds, MaxBlocks), ws \in SeqsUpTo(WordKinds, MaxWords)}

\* the literals of the specification
Hydro == <<"H", "y", "d", "r", "o">>
Gen   == <<"g", "e", "n">>
Line1 == <<"L", "i", "n", "e", "1">>
Line2 == <<"L", "i", "n", "e", "2">>
Word1 == <<"w", "o", "r", "d", "1">>
Word2 == <<"w", "o", "r", "d", "2">>

In == Box4(20, 20)
Out == Box4(70, 70)

HyphenDoc == Doc(<<Small>>, <<Page(<<Word(Hydro, "HYPHEN", In), Word(Gen, NoBreak, In)>>)>>)
LineDoc   == Doc(<<Small>>, <<Page(<<Word(Line1, "LINE_BREAK", In), Word(Line2, NoBreak, In)>>)>>)
SpaceDoc  == Doc(<<Small>>, <<Page(<<Word(Word1, "SPACE", In), Word(Word2, NoBreak, In)>>)>>)

\* matched indices {0,1,2,5,6} for one block
SplitDoc ==
  Doc(<<Small>>,
      <<Page(<<Word(<<"a">>, "SPACE", In), Word(<<"b">>, "SPACE", In), Word(<<"c">>, "SPACE", In),
               Word(<<"x">>, "SPACE", Out), Word(<<"y">>, "SPACE", Out),
               Word(<<"d">>, "SPACE", In), Word(<<"e">>, NoBreak, In)>>)>>)

\* blocks A = [0,0,0.5,0.5], B = [0.5,0.5,1,1], tokens at (0.1,0.1),
\* (0.6,0.6), (0.9,0.9)
EndToEndDoc ==
  Doc(<<Block("LAYOUT_", "A", 0, 0, 50, 50), Block("LAYOUT_", "B", 50, 50, 50, 50)>>,
      <<Page(<<Word(<<"p">>, "LINE_BREAK", Box4(10, 10)), Word(<<"q">>, "SPACE", Box4(60, 60)),
               Word(<<"r">>, NoBreak, Box4(90, 90))>>)>>)

\* two pages, the second declaring no dimensions
TwoPageDoc ==
  Doc(<<Small, Big>>,
      <<Page(<<Word(<<"a">>, "SPACE", In)>>),
        [words |-> <<Word(<<"b">>, "SURE_SPACE", Box4(50, 50)), Word(<<"c">>, "EOL_SURE_SPACE", Out)>>]>>)

\* two orphan words with a matched word between them
OrphanSplitDoc ==
  Doc(<<Small>>,
      <<Page(<<Word(<<"x">>, "SPACE", Out), Word(<<"a">>, "SPACE", In), Word(<<"y">>, NoBreak, Out)>>)>>)

\* no pages at all, and an input file that is missing
NoPagesDoc == Doc(<<Small>>, <<>>)
MissingDoc == [Doc(<<Small>>, <<Page(<<Word(<<"a">>, "SPACE", In)>>)>>) EXCEPT !.aws_loaded = FALSE]

ScenarioDocs ==
  {HyphenDoc, LineDoc, SpaceDoc, SplitDoc, OrphanSplitDoc, EndToEndDoc, TwoPageDoc, NoPagesDoc, MissingDoc}

\* BigCount words outside every block, then one word inside Small; the
\* FIGURE block is left without words
LargeDoc ==
  Doc(<<Small, Block("LAYOUT_", "FIGURE", 80, 0, 10, 10)>>,
      <<Page(<<[Word(<<>>, NoBreak, Out) EXCEPT !.n = BigCount], Word(<<"a">>, NoBreak, In)>>)>>)

Docs == BoundedDocs \cup ScenarioDocs

AllTokens(d) == Concat([k \in 1..Len(d.pages) |-> d.pages[k].words])

-----------------------------------------------------------------------------
(* The state machine: one action per phase of each function *)

NoOutput == [status |-> "pending", annotations |-> <<>>, words_found |-> 0]

Start(d, i) ==
  /\ impl = i
  /\ pc = IF i = DSF THEN "load" ELSE "blocks"
  /\ aws_data = [loaded |-> d.aws_loaded, Blocks |-> d.blocks]
  /\ google_data = [loaded |-> d.google_loaded, pages |-> IF i = DSF THEN d.pages ELSE <<>>]
  /\ google_ocr_tokens = IF i = ALG THEN AllTokens(d) ELSE <<>>
  /\ page_size = <<100, 100>>
  /\ google_words = <<>>
  /\ block_info = <<>>
  /\ used_word_indices = {}
  /\ final_regions = <<>>
  /\ emitted = <<>>
  /\ output = NoOutput

Init == \E d \in Docs : \E i \in {DSF, ALG} : Start(d, i)

InitLarge == \E d \in Docs \cup {LargeDoc} : \E i \in {DSF, ALG} : Start(d, i)

\* lines 123-129: load the inputs; a missing input or no words returns None
DSF_Load ==
  /\ impl = DSF /\ pc = "load"
  /\ LET got == get_google_words_robust(google_data)
     IN  IF ~aws_data.loaded \/ ~google_data.loaded \/ got.words = <<>>
         THEN /\ pc' = "skipped"
              /\ output' = [NoOutput EXCEPT !.status = "None"]
              /\ UNCHANGED google_words
         ELSE /\ pc' = "blocks"
              /\ google_words' = got.words
              /\ UNCHANGED output
  /\ UNCHANGED <<impl, emitted, aws_data, google_data, google_ocr_tokens, page_size,
                 block_info, used_word_indices, final_regions>>

\* lines 131-144
DSF_PrepareBlocks ==
  /\ impl = DSF /\ pc = "blocks"
  /\ block_info' = DSF_block_info(aws_data.Blocks)
  /\ pc' = "assign"
  /\ UNCHANGED <<impl, emitted, aws_data, google_data, google_ocr_tokens, page_size,
                 google_words, used_word_indices, final_regions, output>>

\* lines 145-160
DSF_AssignWords ==
  /\ impl = DSF /\ pc = "assign"
  /\ block_info' = DSF_assign(block_info, google_words, 1)
  /\ used_word_indices' = DSF_used(block_info')
  /\ pc' = "reconstruct"
  /\ UNCHANGED <<impl, emitted, aws_data, google_data, google_ocr_tokens, page_size,
                 google_words, final_regions, output>>

\* lines 162-194
DSF_Reconstruct ==
  /\ impl = DSF /\ pc = "reconstruct"
  /\ final_regions' = DSF_reconstruct(block_info, google_words)
  /\ pc' = "orphans"
  /\ UNCHANGED <<impl, emitted, aws_data, google_data, google_ocr_tokens, page_size,
                 google_words, block_info, used_word_indices, output>>

\* lines 196-218
DSF_Orphans ==
  /\ impl = DSF /\ pc = "orphans"
  /\ final_regions' = final_regions \o DSF_orphans(google_words, used_word_indices)
  /\ pc' = "sort"
  /\ UNCHANGED <<impl, emitted, aws_data, google_data, google_ocr_tokens, page_size,
                 google_words, block_info, used_word_indices, output>>

\* lines 220-228
DSF_Sort ==
  /\ impl = DSF /\ pc = "sort"
  /\ final_regions' = SortBySortKey(final_regions)
  /\ emitted' = final_regions
  /\ output' = [status      |-> "entry",
                annotations |-> [k \in 1..Len(final_regions') |-> StripSortKey(final_regions'[k])],
                words_found |-> Count(google_words)]
  /\ pc' = "done"
  /\ UNCHANGED <<impl, aws_data, google_data, google_ocr_tokens, page_size,
                 google_words, block_info, used_word_indices>>

\* lines 29-45
ALG_PrepareBlocks ==
  /\ impl = ALG /\ pc = "blocks"
  /\ block_info' = ALG_blocks(aws_data.Blocks)
  /\ pc' = "assign"
  /\ UNCHANGED <<impl, emitted, aws_data, google_data, google_ocr_tokens, page_size,
                 google_words, used_word_indices, final_regions, output>>

\* lines 47-60: get_centroid raises on a token without vertices
ALG_AssignTokens ==
  /\ impl = ALG /\ pc = "assign"
  /\ IF \E k \in 1..Len(google_ocr_tokens) :
          CentroidRaises(google_ocr_tokens[k], page_size[1], page_size[2])
     THEN /\ pc' = "raised"
          /\ output' = [NoOutput EXCEPT !.status = "ZeroDivisionError"]
          /\ UNCHANGED <<block_info, used_word_indices>>
     ELSE /\ block_info' = ALG_assign(block_info, google_ocr_tokens, page_size, 1)
          /\ used_word_indices' = DSF_used(block_info')
          /\ pc' = "reconstruct"
          /\ UNCHANGED output
  /\ UNCHANGED <<impl, emitted, aws_data, google_data, google_ocr_tokens, page_size,
                 google_words, final_regions>>

\* lines 62-108
ALG_Reconstruct ==
  /\ impl = ALG /\ pc = "reconstruct"
  /\ final_regions' = ALG_reconstruct(block_info, google_ocr_tokens)
  /\ pc' = "orphans"
  /\ UNCHANGED <<impl, emitted, aws_data, google_data, google_ocr_tokens, page_size,
                 google_words, block_info, used_word_indices, output>>

\* lines 110-136
ALG_Orphans ==
  /\ impl = ALG /\ pc = "orphans"
  /\ final_regions' = final_regions \o ALG_orphans(google_ocr_tokens, used_word_indices)
  /\ pc' = "sort"
  /\ UNCHANGED <<impl, emitted, aws_data, google_data, google_ocr_tokens, page_size,
                 google_words, block_info, used_word_indices, output>>

\* lines 138-141
ALG_Sort ==
  /\ impl = ALG /\ pc = "sort"
  /\ final_regions' = SortBySortKey(final_regions)
  /\ emitted' = final_regions
  /\ output' = [status      |-> "document",
                annotations |-> final_regions',
                words_found |-> Count(google_ocr_tokens)]
  /\ pc' = "done"
  /\ UNCHANGED <<impl, aws_data, google_data, google_ocr_tokens, page_size,
                 google_words, block_info, used_word_indices>>

Next ==
  \/ DSF_Load
  \/ DSF_PrepareBlocks
  \/ DSF_AssignWords
  \/ DSF_Reconstruct
  \/ DSF_Orphans
  \/ DSF_Sort
  \/ ALG_PrepareBlocks
  \/ ALG_AssignTokens
  \/ ALG_Reconstruct
  \/ ALG_Orphans
  \/ ALG_Sort

Spec == Init /\ [][Next]_vars

SpecLarge == InitLarge /\ [][Next]_vars

-----------------------------------------------------------------------------
(* Vocabulary of the properties *)

Done == pc = "done"

\* the indexed tokens of the running realization
Tokens == IF impl = DSF THEN google_words ELSE google_ocr_tokens

TokenCount == Count(Tokens)

\* the tokens as they were supplied
RawTokens ==
  IF impl = DSF
  THEN Concat([k \in 1..Len(google_data.pages) |-> google_data.pages[k].words])
  ELSE google_ocr_tokens

\* the normalized centroid of entry k of Tokens
CentroidOf(k) ==
  IF impl = DSF
  THEN <<google_words[k].center_x, google_words[k].center_y>>
  ELSE get_centroid(google_ocr_tokens[k], page_size[1], page_size[2])

Regions == {final_regions[k] : k \in 1..Len(final_regions)}
BlockSet == {block_info[j] : j \in 1..Len(block_info)}

HasTokens(r) == r.run # <<>>
IsOrphan(r) == r.block = 0
IsEmptyBlock(r) == r.block # 0 /\ r.run = <<>>

MatchedSet(b) == Indices(b.matched_indices)
AllMatched == UNION {MatchedSet(b) : b \in BlockSet}

\* the maximal runs of consecutive integers of a set, as pairs <<first, last>>
MaximalRuns(S) ==
  {<<a, b>> \in S \X S : a <= b /\ (a - 1) \notin S /\ (b + 1) \notin S /\ \A i \in a..b : i \in S}

\* how often index i occurs in a list of spans
Occurrences(spans, i) == Cardinality({k \in 1..Len(spans) : spans[k][1] <= i /\ i <= spans[k][2]})

\* the blocks whose expanded rectangle holds the centroid of entry k
HitBlocks(k) == {b \in BlockSet : Inside(b.coords, CentroidOf(k)[1], CentroidOf(k)[2])}

\* b comes before c in ascending-area order, equal areas in input order
AreaBefore(b, c) == b.area < c.area \/ (b.area = c.area /\ b.pos <= c.pos)

Assigned == pc \in {"reconstruct", "orphans", "sort", "done"}

-----------------------------------------------------------------------------
(* C1  Partition property.  When the fusion has returned its regions,      *)
(* every token index 0..N-1 lies in the run of exactly one region, once;   *)
(* it is recorded in the matched indices of at most one block; and the     *)
(* indices of the orphan regions are exactly those matched by no block.    *)

C1_Partition ==
  Done =>
    /\ \A i \in 0..(TokenCount - 1) :
         /\ Cardinality({k \in 1..Len(final_regions) : i \in Indices(final_regions[k].run)}) = 1
         /\ \A r \in Regions : Occurrences(r.run, i) <= 1
         /\ Cardinality({j \in 1..Len(block_info) : i \in MatchedSet(block_info[j])}) <= 1
         /\ \A j \in 1..Len(block_info) : Occurrences(block_info[j].matched_indices, i) <= 1
    /\ UNION {Indices(r.run) : r \in Regions} = 0..(TokenCount - 1)
    /\ UNION {Indices(r.run) : r \in {q \in Regions : IsOrphan(q)}} = (0..(TokenCount - 1)) \ AllMatched
    /\ UNION {Indices(r.run) : r \in {q \in Regions : ~IsOrphan(q)}} = AllMatched

\* a finished fusion with two blocks, a token inside both, a token in the
\* other block and an orphan token
C1_Witness ==
  /\ Done
  /\ \E k \in 1..Len(Tokens) : Cardinality(HitBlocks(k)) >= 2
  /\ Cardinality({b \in BlockSet : b.matched_indices # <<>>}) >= 2
  /\ \E r \in Regions : IsOrphan(r)

-----------------------------------------------------------------------------
(* C2  Ordering property.  In the returned list every region built from    *)
(* tokens has a finite sort_key, the index of the first token of its run;  *)
(* every empty-block region has a sort_key above that of every region      *)
(* with tokens; the list is in ascending sort_key order; and so every      *)
(* empty-block region comes strictly after every region that has tokens,   *)
(* for any number of tokens.                                               *)

C2_Ordering ==
  Done =>
    /\ \A r \in Regions : HasTokens(r) => ~r.sort_key.inf /\ r.sort_key.val = r.run[1][1]
    /\ \A r, e \in Regions : HasTokens(r) /\ IsEmptyBlock(e) => KeyLT(r.sort_key, e.sort_key)
    /\ \A p, q \in 1..Len(final_regions) :
         p < q => ~KeyLT(final_regions[q].sort_key, final_regions[p].sort_key)
    /\ \A p, q \in 1..Len(final_regions) :
         IsEmptyBlock(final_regions[p]) /\ HasTokens(final_regions[q]) => q < p

-----------------------------------------------------------------------------
(* C3  Empty-block preservation.  Every prepared block without matched     *)
(* indices appears in the output exactly once, with its label, its box     *)
(* and the empty text; and a document whose inputs were read is never      *)
(* skipped: without tokens the result is the list of the empty-text        *)
(* regions of its blocks.                                                  *)

C3_EmptyBlocksKept ==
  /\ Done =>
       \A b \in BlockSet :
         b.matched_indices = <<>> =>
           /\ Cardinality({k \in 1..Len(final_regions) : final_regions[k].block = b.pos}) = 1
           /\ \A r \in Regions :
                r.block = b.pos => r.label = b.label /\ r.box = b.coords /\ r.text = <<>>
  /\ (aws_data.loaded /\ google_data.loaded) => pc # "skipped"

-----------------------------------------------------------------------------
(* C4  Smallest-enclosing property.  Once the tokens are assigned, a token *)
(* whose centroid passes the inclusion test of some block is recorded in   *)
(* a block that passes it and that comes first, in ascending-area order    *)
(* (equal areas in input order), among all blocks that pass it; of two     *)
(* blocks of different area that both hold the centroid the larger one     *)
(* never records the token, whatever the order of the input blocks.        *)

C4_SmallestEnclosing ==
  Assigned =>
    \A k \in 1..Len(Tokens) :
      LET span == SpanOf(Tokens, k)
          owners == {b \in BlockSet : span[1] \in MatchedSet(b)}
      IN  /\ HitBlocks(k) # {} => owners # {}
          /\ \A b \in owners :
               /\ b \in HitBlocks(k)
               /\ \A c \in HitBlocks(k) : AreaBefore(b, c)
          /\ \A b, c \in HitBlocks(k) : b.area < c.area => c \notin owners

\* the larger of two nested blocks was supplied first and the token went
\* to the smaller one
C4_Witness ==
  /\ Assigned
  /\ \E k \in 1..Len(Tokens) :
       \E b, c \in HitBlocks(k) :
         /\ b.area < c.area /\ c.pos < b.pos
         /\ SpanOf(Tokens, k)[1] \in MatchedSet(b)

-----------------------------------------------------------------------------
(* C5  Run-splitting property.  For every block with matched indices the   *)
(* output holds exactly one region per maximal run of consecutive          *)
(* integers of its matched set, with the block's label and box, built      *)
(* from that run's tokens only, its sort_key the first index of the run.   *)

C5_RunSplitting ==
  Done =>
    \A b \in BlockSet :
      b.matched_indices # <<>> =>
        LET mine == {k \in 1..Len(final_regions) : final_regions[k].block = b.pos}
            runs == MaximalRuns(MatchedSet(b))
        IN  /\ Cardinality(mine) = Cardinality(runs)
            /\ \A run \in runs :
                 \E k \in mine :
                   /\ Indices(final_regions[k].run) = run[1]..run[2]
                   /\ final_regions[k].sort_key = Fin(run[1])
                   /\ final_regions[k].label = b.label
                   /\ final_regions[k].box = b.coords

-----------------------------------------------------------------------------
(* C6  Break reconstruction.  The text of a region built from tokens is    *)
(* the token texts in run order, each but the last followed by the         *)
(* separator of its break_type: a newline for EOL_SURE_SPACE and           *)
(* LINE_BREAK, a space for SPACE and SURE_SPACE, " - " for HYPHEN (the     *)
(* separator that makes "Hydro", "gen" read "Hydro - gen"), nothing        *)
(* otherwise.  The comparison is made up to the trimming of C7: leading    *)
(* and trailing whitespace is removed on both sides.                       *)

C6_Separator(bt) ==
  IF bt \in {"EOL_SURE_SPACE", "LINE_BREAK"} THEN <<"\n">>
  ELSE IF bt \in {"SPACE", "SURE_SPACE"} THEN <<" ">>
  ELSE IF bt = "HYPHEN" THEN <<" ", "-", " ">>
  ELSE <<>>

RECURSIVE C6_Text(_)
C6_Text(word_list) ==
  IF word_list = <<>> THEN <<>>
  ELSE LET w == Head(word_list)
       IN  Repeat(w.text \o C6_Separator(w.break_type), w.n - 1)
             \o w.text
             \o (IF Len(word_list) > 1 THEN C6_Separator(w.break_type) ELSE <<>>)
             \o C6_Text(Tail(word_list))

C6_BreakReconstruction ==
  Done => \A r \in Regions :
            HasTokens(r) => Strip(r.text) = Strip(C6_Text(ChunkWords(Tokens, r.run)))

-----------------------------------------------------------------------------
(* C7  Trimmed output.  The text of every returned region has no leading   *)
(* and no trailing whitespace character.                                   *)

C7_Trimmed ==
  Done => \A r \in Regions :
            r.text # <<>> => ~IsSpace(r.text[1]) /\ ~IsSpace(r.text[Len(r.text)])

-----------------------------------------------------------------------------
(* C8  Orphan collection.  The output holds exactly one region per maximal *)
(* run of consecutive integers of the indices matched by no block, labeled *)
(* 'Paragraph', built from that run's tokens only, its sort_key the first  *)
(* index of the run; two orphan tokens with a matched token between them   *)
(* are never in the same region.                                           *)

C8_OrphanRuns ==
  Done =>
    LET orphans == {k \in 1..Len(final_regions) : IsOrphan(final_regions[k])}
        runs == MaximalRuns((0..(TokenCount - 1)) \ AllMatched)
    IN  /\ Cardinality(orphans) = Cardinality(runs)
        /\ \A run \in runs :
             \E k \in orphans :
               /\ Indices(final_regions[k].run) = run[1]..run[2]
               /\ final_regions[k].sort_key = Fin(run[1])
               /\ final_regions[k].label = "Paragraph"

-----------------------------------------------------------------------------
(* C9  Token without geometry.  A token without vertices never makes the   *)
(* fusion raise; it is dropped before indexing: the indexed tokens are the *)
(* supplied tokens that have vertices, in their order, the token count     *)
(* counts only them and the runs of the regions cover exactly their        *)
(* indices 0..N-1.                                                         *)

C9_NoGeometryDropped ==
  LET kept == SelectSeq(RawTokens, LAMBDA w : w.vertices # <<>>)
  IN  /\ pc # "raised"
      /\ Done =>
           /\ Len(Tokens) = Len(kept)
           /\ \A k \in 1..Len(kept) :
                Tokens[k].text = kept[k].text /\ Tokens[k].break_type = kept[k].break_type
           /\ output.words_found = Count(kept)
           /\ UNION {Indices(r.run) : r \in Regions} = 0..(Count(kept) - 1)

-----------------------------------------------------------------------------
(* C10  Stable tie order.  The final sort keeps regions of equal sort_key  *)
(* in the order they were emitted; only empty-block regions share a        *)
(* sort_key; and the empty-block regions end the output in the order       *)
(* their blocks had in the input block list.                               *)

EmittedAt(r) == CHOOSE k \in 1..Len(emitted) : emitted[k] = r

=============================================================================
